---- MODULE Spec2Model ----
(***************************************************************************)
(* A model of shredsim/utils.py: the shred adjacency-graph builder         *)
(* cut_to_shreds and the border-component filter preserve_outermost.       *)
(*                                                                         *)
(* Points, sizes, shapes and offsets are pairs <<row, col>>.  An image is  *)
(* a function from its pixel coordinates <<row, col>> (0-based, as in      *)
(* numpy) to 8-bit intensities.                                            *)
(***************************************************************************)
EXTENDS Integers, Sequences, FiniteSets, TLC

VARIABLES
    size,          \* cut_to_shreds: the document size argument
    shred_config,  \* cut_to_shreds: [mask_shape, right, bottom]
    done,          \* cut_to_shreds: the set of expanded base points
    todo,          \* cut_to_shreds: the frontier
    graph,         \* cut_to_shreds: the nx.Graph under construction
    pc,            \* cut_to_shreds: "loop", "returned" (or "idle")
    image,             \* preserve_outermost: the image argument
    foreground_mask,   \* preserve_outermost: the foreground_mask argument
    once,              \* the value returned by preserve_outermost(image, mask)
    twice,             \* the value returned by preserve_outermost(once, mask)
    fpc                \* "call", "returned", "reapplied", "IndexError" (or "idle")

vars == <<size, shred_config, done, todo, graph, pc,
          image, foreground_mask, once, twice, fpc>>

----------------------------------------------------------------------------
(* Bounds of the model. *)

MaxRows == 2        \* document sizes have 1..MaxRows rows
MaxCols == 3        \* and 1..MaxCols columns
MaxShape == 2       \* mask shapes are drawn from (1..MaxShape) x (1..MaxShape)
MaxOff == 1         \* offsets are drawn from (0..MaxOff) x (-1..MaxOff)
ImgCols == 3        \* the filter is applied to images of ImgCols columns

\* Scenario A of the specification: a 2 x 2 block of shreds.
ScenarioA ==
    [size |-> <<220, 220>>,
     cfg  |-> [mask_shape |-> <<100, 100>>, right |-> <<0, 110>>, bottom |-> <<110, 0>>]]

Sizes == (1..MaxRows) \X (1..MaxCols)
Shapes == (1..MaxShape) \X (1..MaxShape)
Offsets == (0..MaxOff) \X (-1..MaxOff)

Inputs ==
    {ScenarioA} \cup
    { [size |-> s, cfg |-> [mask_shape |-> m, right |-> r, bottom |-> b]] :
        s \in Sizes, m \in Shapes, r \in Offsets, b \in Offsets }

----------------------------------------------------------------------------
(* numpy arithmetic on 2-vectors *)

Plus(a, b) == <<a[1] + b[1], a[2] + b[2]>>
Minus(a, b) == <<a[1] - b[1], a[2] - b[2]>>

(* dataset.to_slice: the rectangle of the mask's shape whose top-left     *)
(* corner is the base point, as a pair of half-open ranges (slices).      *)
to_slice(base_point, shape) ==
    << <<base_point[1], base_point[1] + shape[1]>>,
       <<base_point[2], base_point[2] + shape[2]>> >>

(* Mutant: the last two candidates repeat the offset of the first two. *)
NeighborsRightTwice(base_point, cfg) ==
    << Minus(base_point, cfg.right),
       Plus(base_point, cfg.right),
       Minus(base_point, cfg.right),
       Plus(base_point, cfg.right) >>

(* The candidate neighbours, in the order of the source's list. *)
Neighbors(base_point, cfg) ==
    << Minus(base_point, cfg.right),     \* left
       Plus(base_point, cfg.right),      \* right
       Minus(base_point, cfg.bottom),    \* top
       Plus(base_point, cfg.bottom) >>   \* bottom

(* The test that makes the loop skip a neighbour. *)
OutOfBounds(neighbor, shape, sz) ==
    \/ neighbor[1] < 0 \/ neighbor[2] < 0
    \/ neighbor[1] + shape[1] > sz[1] \/ neighbor[2] + shape[2] > sz[2]

(* networkx: an undirected simple graph with node attributes.  nodes is   *)
(* the node set, slice the attribute of the nodes that have one, edges a  *)
(* set of unordered pairs {u, v} ({u} is a self-loop).                     *)
EmptyGraph == [nodes |-> {}, slice |-> <<>>, edges |-> {}]

add_node(g, n, s) ==
    [g EXCEPT !.nodes = @ \cup {n},
              !.slice = [x \in (DOMAIN @) \cup {n} |-> IF x = n THEN s ELSE @[x]]]

add_edge(g, u, v) ==
    [g EXCEPT !.nodes = @ \cup {u, v}, !.edges = @ \cup {{u, v}}]

(* Mutant: the edge is added from the neighbour to itself. *)
LinkNeighborToItself(g, base_point, neighbor) == add_edge(g, neighbor, neighbor)

(* graph.add_edge(tuple(base_point), tuple(neighbor)) *)
LinkNeighbor(g, base_point, neighbor) == add_edge(g, base_point, neighbor)

(* Mutant: the test forgets the done set. *)
DiscoveredInTodoOnly(neighbor, dn, td) == neighbor \in td

(* The neighbour is queued unless it is already done or already queued. *)
Discovered(neighbor, dn, td) == neighbor \in dn \/ neighbor \in td

(* Mutant: the done/todo test comes before add_edge, so a neighbour that *)
(* is already discovered gets no edge.                                    *)
RECURSIVE VisitNeighborsSkipKnown(_, _, _, _, _, _)
VisitNeighborsSkipKnown(i, base_point, sz, cfg, dn, st) ==
    IF i > Len(Neighbors(base_point, cfg)) THEN st
    ELSE LET neighbor == Neighbors(base_point, cfg)[i] IN
         IF OutOfBounds(neighbor, cfg.mask_shape, sz)
            \/ Discovered(neighbor, dn, st.todo)
         THEN VisitNeighborsSkipKnown(i + 1, base_point, sz, cfg, dn, st)
         ELSE VisitNeighborsSkipKnown(i + 1, base_point, sz, cfg, dn,
                  [graph |-> LinkNeighbor(st.graph, base_point, neighbor),
                   todo |-> st.todo \cup {neighbor}])

(* The for loop over the neighbours, from the i-th on: the state          *)
(* [graph, todo] it leaves.                                                *)
RECURSIVE VisitNeighbors(_, _, _, _, _, _)
VisitNeighbors(i, base_point, sz, cfg, dn, st) ==
    IF i > Len(Neighbors(base_point, cfg)) THEN st
    ELSE LET neighbor == Neighbors(base_point, cfg)[i] IN
         IF OutOfBounds(neighbor, cfg.mask_shape, sz)
         THEN VisitNeighbors(i + 1, base_point, sz, cfg, dn, st)
         ELSE LET g2 == LinkNeighbor(st.graph, base_point, neighbor) IN
              IF Discovered(neighbor, dn, st.todo)
              THEN VisitNeighbors(i + 1, base_point, sz, cfg, dn,
                                  [graph |-> g2, todo |-> st.todo])
              ELSE VisitNeighbors(i + 1, base_point, sz, cfg, dn,
                                  [graph |-> g2, todo |-> st.todo \cup {neighbor}])

(* One iteration of the while loop on the popped base point. *)
LoopBody(base_point, sz, cfg, dn, td, g) ==
    LET dn2 == dn \cup {base_point}
        g1 == add_node(g, base_point, to_slice(base_point, cfg.mask_shape))
        st == VisitNeighbors(1, base_point, sz, cfg, dn2,
                             [graph |-> g1, todo |-> td \ {base_point}])
    IN  [done |-> dn2, todo |-> st.todo, graph |-> st.graph]

----------------------------------------------------------------------------
(* cut_to_shreds as a state machine: todo.pop() removes an arbitrary      *)
(* element.                                                                *)

FilterIdle ==
    /\ image = <<>> /\ foreground_mask = <<>>
    /\ once = <<>> /\ twice = <<>> /\ fpc = "idle"

Init ==
    /\ \E inp \in Inputs : size = inp.size /\ shred_config = inp.cfg
    /\ done = {}
    /\ todo = {<<0, 0>>}
    /\ graph = EmptyGraph
    /\ pc = "loop"
    /\ FilterIdle

Expand ==
    /\ pc = "loop"
    /\ todo # {}
    /\ \E base_point \in todo :
         LET r == LoopBody(base_point, size, shred_config, done, todo, graph) IN
         /\ done' = r.done
         /\ todo' = r.todo
         /\ graph' = r.graph
    /\ UNCHANGED <<size, shred_config, pc, image, foreground_mask, once, twice, fpc>>

Return ==
    /\ pc = "loop"
    /\ todo = {}
    /\ pc' = "returned"
    /\ UNCHANGED <<size, shred_config, done, todo, graph,
                   image, foreground_mask, once, twice, fpc>>

Next == Expand \/ Return

Spec == Init /\ [][Next]_vars

(* The loop is sequential code: it keeps running while it can. *)
FairSpec == Spec /\ WF_vars(Next)

----------------------------------------------------------------------------
(* preserve_outermost.  A 2D array is [rows, cols, at], at mapping        *)
(* <<row, col>> (0-based) to an intensity in 0..255.                       *)

new_val == 128      \* the "unused flood fill value"
Threshold == 254    \* cv2.threshold(foreground_mask, 254, ...)
White == 255        \* maxval of the threshold, and the seed test's value

Index(a) == (0..(a.rows - 1)) \X (0..(a.cols - 1))

(* cv2.threshold(src, thresh, maxval, THRESH_BINARY_INV)[1] *)
threshold_binary_inv(src, thresh, maxval) ==
    [src EXCEPT !.at = [p \in Index(src) |-> IF src.at[p] > thresh THEN 0 ELSE maxval]]

(* np.maximum *)
maximum(a, b) ==
    [a EXCEPT !.at = [p \in Index(a) |-> IF a.at[p] >= b.at[p] THEN a.at[p] ELSE b.at[p]]]

(* dataset.pad_image(img, n): n pixels of background (0) on every side. *)
pad_image(img, n) ==
    [rows |-> img.rows + 2 * n,
     cols |-> img.cols + 2 * n,
     at   |-> [p \in (0..(img.rows + 2 * n - 1)) \X (0..(img.cols + 2 * n - 1)) |->
                 IF /\ p[1] >= n /\ p[1] < img.rows + n
                    /\ p[2] >= n /\ p[2] < img.cols + n
                 THEN img.at[<<p[1] - n, p[2] - n>>]
                 ELSE 0]]

(* 255 - a *)
Inverted(a) == [a EXCEPT !.at = [p \in Index(a) |-> 255 - a.at[p]]]

(* np.argwhere(a == v): the matching coordinates; numpy lists them in     *)
(* row-major order, and the code takes the first.                          *)
argwhere(a, v) == {p \in Index(a) : a.at[p] = v}

RowMajorBefore(p, q) == p[1] < q[1] \/ (p[1] = q[1] /\ p[2] <= q[2])

First(S) == CHOOSE p \in S : \A q \in S : RowMajorBefore(p, q)

(* seed_point[::-1]: <<row, col>> to the <<x, y>> that OpenCV takes. *)
Reversed(p) == <<p[2], p[1]>>

FourNeighbors(p) ==
    {<<p[1] - 1, p[2]>>, <<p[1] + 1, p[2]>>, <<p[1], p[2] - 1>>, <<p[1], p[2] + 1>>}

(* The pixels the fill reaches from region R: 4-connected steps (the      *)
(* default flags) to a pixel whose mask entry (one row and one column     *)
(* further in the mask) is zero and whose value equals its neighbour's    *)
(* (loDiff = upDiff = 0).                                                  *)
RECURSIVE FillRegion(_, _, _)
FillRegion(R, img, mask) ==
    LET T == R \cup {q \in Index(img) :
                       /\ mask.at[<<q[1] + 1, q[2] + 1>>] = 0
                       /\ \E p \in R : q \in FourNeighbors(p) /\ img.at[q] = img.at[p]}
    IN  IF T = R THEN R ELSE FillRegion(T, img, mask)

(* cv2.floodFill(img, mask, seedPoint, newVal) with a mask: the arrays as *)
(* it leaves them.  The filled pixels take newVal in the image and 1 in   *)
(* the mask; OpenCV also sets the mask's outer border to 1.                *)
floodFill(img, mask, seedPoint, newVal) ==
    LET seed == <<seedPoint[2], seedPoint[1]>>
        R == IF mask.at[<<seed[1] + 1, seed[2] + 1>>] # 0 THEN {}
             ELSE FillRegion({seed}, img, mask)
    IN  [image |-> [img EXCEPT !.at = [p \in Index(img) |->
                                         IF p \in R THEN newVal ELSE img.at[p]]],
         mask  |-> [mask EXCEPT !.at = [p \in Index(mask) |->
                      IF \/ p[1] = 0 \/ p[1] = mask.rows - 1
                         \/ p[2] = 0 \/ p[2] = mask.cols - 1
                      THEN 1
                      ELSE IF <<p[1] - 1, p[2] - 1>> \in R THEN 1 ELSE mask.at[p]]]]

(* (a == v).astype(np.uint8) *)
EqualTo(a, v) == [a EXCEPT !.at = [p \in Index(a) |-> IF a.at[p] = v THEN 1 ELSE 0]]

(* a[1:-1, 1:-1] *)
Crop(a) ==
    [rows |-> a.rows - 2,
     cols |-> a.cols - 2,
     at   |-> [p \in (0..(a.rows - 3)) \X (0..(a.cols - 3)) |-> a.at[<<p[1] + 1, p[2] + 1>>]]]

(* The bitwise and of two bytes, from bit n up. *)
RECURSIVE BitAnd(_, _, _)
BitAnd(x, y, n) ==
    IF n = 0 THEN 0
    ELSE (IF x % 2 = 1 /\ y % 2 = 1 THEN 1 ELSE 0) + 2 * BitAnd(x \div 2, y \div 2, n - 1)

(* cv2.bitwise_and(src1, src2, mask=mask): zero where the mask is zero. *)
bitwise_and(src1, src2, mask) ==
    [src1 EXCEPT !.at = [p \in Index(src1) |->
        IF mask.at[p] # 0 THEN BitAnd(src1.at[p], src2.at[p], 8) ELSE 0]]

(* The candidates for the seed: np.argwhere(outside_mask == 255). *)
SeedCandidates(fg_mask) ==
    argwhere(threshold_binary_inv(fg_mask, Threshold, White), White)

(* Mutant: the flood-filled working image is returned instead of image. *)
preserve_outermost_working_copy(img, fg_mask) ==
    LET outside_mask == threshold_binary_inv(fg_mask, Threshold, White)
        with_outside == maximum(img, outside_mask)
        flood_fill_mask == Inverted(pad_image(with_outside, 1))
        seed_point == First(argwhere(outside_mask, White))
        filled == floodFill(with_outside, flood_fill_mask, Reversed(seed_point), new_val)
    IN  bitwise_and(filled.image, filled.image, Crop(EqualTo(filled.mask, 1)))

(* preserve_outermost, when a seed exists. *)
preserve_outermost(img, fg_mask) ==
    LET outside_mask == threshold_binary_inv(fg_mask, Threshold, White)
        with_outside == maximum(img, outside_mask)
        flood_fill_mask == Inverted(pad_image(with_outside, 1))
        seed_point == First(argwhere(outside_mask, White))
        filled == floodFill(with_outside, flood_fill_mask, Reversed(seed_point), new_val)
    IN  bitwise_and(img, img, Crop(EqualTo(filled.mask, 1)))

----------------------------------------------------------------------------
(* The filter as a state machine: it is called on a binary image and a    *)
(* mask, and then again on its own result with the same mask.              *)

ImagePixels == {0, 255}
MaskPixels == {0, 255}

\* The shape of the images: two rows, so that pixels can also touch
\* vertically and diagonally.
ImgShape == <<2, ImgCols>>

Arrays(values) ==
    { [rows |-> ImgShape[1], cols |-> ImgShape[2], at |-> f] :
        f \in [(0..(ImgShape[1] - 1)) \X (0..(ImgShape[2] - 1)) -> values] }

GraphIdle ==
    /\ size = <<0, 0>>
    /\ shred_config = [mask_shape |-> <<0, 0>>, right |-> <<0, 0>>, bottom |-> <<0, 0>>]
    /\ done = {} /\ todo = {} /\ graph = EmptyGraph /\ pc = "idle"

FilterInit ==
    /\ image \in Arrays(ImagePixels)
    /\ foreground_mask \in Arrays(MaskPixels)
    /\ once = <<>>
    /\ twice = <<>>
    /\ fpc = "call"
    /\ GraphIdle

(* np.argwhere(...)[0] on an empty array raises IndexError. *)
Raise ==
    /\ fpc = "call"
    /\ SeedCandidates(foreground_mask) = {}
    /\ fpc' = "IndexError"
    /\ UNCHANGED <<size, shred_config, done, todo, graph, pc,
                   image, foreground_mask, once, twice>>

Apply ==
    /\ fpc = "call"
    /\ SeedCandidates(foreground_mask) # {}
    /\ once' = preserve_outermost(image, foreground_mask)
    /\ fpc' = "returned"
    /\ UNCHANGED <<size, shred_config, done, todo, graph, pc,
                   image, foreground_mask, twice>>

Reapply ==
    /\ fpc = "returned"
    /\ twice' = preserve_outermost(once, foreground_mask)
    /\ fpc' = "reapplied"
    /\ UNCHANGED <<size, shred_config, done, todo, graph, pc,
                   image, foreground_mask, once>>

FilterNext == Raise \/ Apply \/ Reapply

FilterSpec == FilterInit /\ [][FilterNext]_vars

----------------------------------------------------------------------------
(* Vocabulary of the properties of cut_to_shreds. *)

Origin == <<0, 0>>

(* The extraction window of point p lies inside the document. *)
WindowInBounds(p) ==
    /\ p[1] >= 0 /\ p[2] >= 0
    /\ p[1] + shred_config.mask_shape[1] <= size[1]
    /\ p[2] + shred_config.mask_shape[2] <= size[2]

(* The four offset vectors +right, -right, +bottom, -bottom. *)
Deltas ==
    {shred_config.right, Minus(Origin, shred_config.right),
     shred_config.bottom, Minus(Origin, shred_config.bottom)}

(* Every point whose window can be in bounds. *)
WindowPoints ==
    (0..(size[1] - shred_config.mask_shape[1])) \X
    (0..(size[2] - shred_config.mask_shape[2]))

(* The points reachable from S along the edges E. *)
RECURSIVE ReachableAlong(_, _)
ReachableAlong(S, E) ==
    LET T == S \cup {q \in UNION E : \E p \in S : {p, q} \in E} IN
    IF T = S THEN S ELSE ReachableAlong(T, E)

(* The in-bounds points reachable from S by in-bounds steps of the offsets. *)
RECURSIVE LatticeClosure(_)
LatticeClosure(S) ==
    LET T == S \cup {q \in {Plus(p, d) : p \in S, d \in Deltas} : WindowInBounds(q)} IN
    IF T = S THEN S ELSE LatticeClosure(T)

(* The graph section 4.1 describes, as a function of the inputs alone. *)
ExpectedGraph ==
    LET R == LatticeClosure({Origin}) IN
    [nodes |-> R,
     slice |-> [p \in R |-> << <<p[1], p[1] + shred_config.mask_shape[1]>>,
                               <<p[2], p[2] + shred_config.mask_shape[2]>> >>],
     edges |-> {e \in {{p, Plus(p, d)} : p \in R, d \in Deltas} :
                  \A q \in e : WindowInBounds(q)}]

(* right or bottom is the zero vector, or the mask does not fit. *)
Malformed ==
    \/ shred_config.right = Origin
    \/ shred_config.bottom = Origin
    \/ shred_config.mask_shape[1] > size[1]
    \/ shred_config.mask_shape[2] > size[2]

----------------------------------------------------------------------------
(* C1: every node of the returned graph, the start node (0,0) included,   *)
(* has an in-bounds slice, for every size and configuration.  The code    *)
(* adds (0,0) without the bounds test, so a mask larger than the document *)
(* refutes it.                                                             *)
C1_ReturnedNodesInBounds ==
    pc = "returned" =>
        /\ DOMAIN graph.slice = graph.nodes
        /\ \A p \in graph.nodes :
              /\ graph.slice[p][1][1] >= 0 /\ graph.slice[p][1][2] <= size[1]
              /\ graph.slice[p][2][1] >= 0 /\ graph.slice[p][2][2] <= size[2]
              /\ WindowInBounds(p)

C3_Connected ==
    /\ graph.nodes \subseteq ReachableAlong({Origin}, graph.edges)
    /\ \A p \in todo :
          \/ p = Origin /\ done = {}
          \/ \E q \in done : {p, q} \in graph.edges

C3_Witness ==
    /\ pc = "loop"
    /\ Cardinality(todo) >= 2
    /\ Cardinality(done) >= 2

(* C4: the returned graph is the same for every pop order: it is the      *)
(* graph determined by the size and the configuration alone.               *)
C4_OrderIndependent ==
    pc = "returned" => graph = ExpectedGraph

(* A returned graph with a cycle: its nodes were reached in several orders. *)
C4_Witness ==
    /\ pc = "returned"
    /\ Cardinality(graph.nodes) >= 4
    /\ Cardinality(graph.edges) >= Cardinality(graph.nodes)

(* C5: cut_to_shreds returns, for every size and configuration; done and  *)
(* todo stay disjoint, each iteration expands one point that was not      *)
(* expanded before, and every point the loop queues is in bounds.          *)
C5_Terminates ==
    /\ <>(pc = "returned")
    /\ [](done \cap todo = {})
    /\ [][ done' # done =>
             /\ \E p \in todo \ done : done' = done \cup {p}
             /\ \A q \in todo' \ todo : WindowInBounds(q) /\ q \notin done' ]_vars

(* A run with a zero offset that expanded several points and returned. *)
C5_Witness ==
    /\ pc = "returned"
    /\ shred_config.right = Origin
    /\ Cardinality(done) >= 2

(* C6: a malformed configuration is rejected: cut_to_shreds does not      *)
(* return a graph.  The code has no such test and returns.                 *)
C6_MalformedRejected ==
    Malformed => pc # "returned"

(* C10: Scenario A returns exactly the four nodes of the 2 x 2 block and  *)
(* the four edges of one 4-cycle.                                          *)
C10_ScenarioA ==
    (pc = "returned" /\ size = ScenarioA.size /\ shred_config = ScenarioA.cfg) =>
        /\ graph.nodes = {<<0, 0>>, <<0, 110>>, <<110, 0>>, <<110, 110>>}
        /\ graph.edges = {{<<0, 0>>, <<0, 110>>}, {<<0, 0>>, <<110, 0>>},
                          {<<0, 110>>, <<110, 110>>}, {<<110, 0>>, <<110, 110>>}}

C10_Witness ==
    pc = "returned" /\ size = ScenarioA.size /\ shred_config = ScenarioA.cfg

----------------------------------------------------------------------------
(* Vocabulary of the properties of preserve_outermost. *)

(* The outside region: the pixels of the mask with a value other than 255. *)
Outside == {p \in Index(foreground_mask) : foreground_mask.at[p] # 255}

(* The foreground of max(image, outside_mask). *)
ForegroundWithOutside == {p \in Index(image) : image.at[p] # 0} \cup Outside

(* The pixels of F that are 4-connected, inside F, to a pixel of S. *)
RECURSIVE ConnectedTo(_, _)
ConnectedTo(S, F) ==
    LET T == S \cup {q \in F : \E p \in S : q \in FourNeighbors(p)} IN
    IF T = S THEN S ELSE ConnectedTo(T, F)

(* C7: a foreground pixel of image is kept exactly when its component of  *)
(* max(image, outside_mask) holds some pixel of the outside region; every *)
(* other pixel is zero.  The code floods from one seed only, so a         *)
(* component that touches another part of the outside region is dropped.  *)
C7_KeepsAllOutsideComponents ==
    fpc = "returned" =>
        \A p \in Index(image) :
            once.at[p] = IF image.at[p] # 0 /\ p \in ConnectedTo(Outside, ForegroundWithOutside)
                         THEN image.at[p] ELSE 0

(* C8: applying the filter to its own result, with the same mask, gives   *)
(* the same image pixel for pixel.                                         *)
C8_Idempotent ==
    fpc = "reapplied" => twice = once

(* The filter was applied twice to an image of which it kept one          *)
(* foreground pixel and dropped another.                                   *)
C8_Witness ==
    /\ fpc = "reapplied"
    /\ \E p \in Index(image) : image.at[p] # 0 /\ once.at[p] = 0
    /\ \E p \in Index(image) : once.at[p] # 0

(* C9: a mask with no pixel other than 255 makes the call fail with       *)
(* InvalidMask.  The code indexes the empty seed list: IndexError.         *)
C9_InvalidMaskDetected ==
    (Outside = {} /\ fpc # "call") => fpc = "InvalidMask"

====
